---- MODULE Spec2Model ----
(***************************************************************************)
(* Model of the command generation / execution engine of aish-cli          *)
(* (src/src/commands/command.ts): the CommandExecutor state machine, its   *)
(* loop guard, the confirmation prompt and the results the process         *)
(* executor can resolve with.                                              *)
(*                                                                         *)
(* Optional JavaScript values (undefined / null) are encoded as sequences  *)
(* of length 0 (absent) or 1 (present).  Commands, queries and replies are *)
(* sequences of tokens / characters so that the text tests of the source   *)
(* (word match on sudo, includes("|"), trim, toLowerCase) are computed.    *)
(***************************************************************************)
EXTENDS Integers, Sequences, FiniteSets, TLC

VARIABLES
    state,                \* context.state
    query,                \* context.query
    originalQuery,        \* context.originalQuery
    conversationHistory,  \* context.conversationHistory
    currentAnalysis,      \* context.currentAnalysis (optional)
    lastError,            \* context.lastError (optional)
    isSudoRetry,          \* context.isSudoRetry (optional)
    sudoAttempts,         \* context.sudoAttempts (optional)
    attemptCount,         \* context.attemptCount
    maxTries,             \* context.maxTries
    failures,             \* context.failures
    autoApprove,          \* context.autoApprove
    jsonMode,             \* context.jsonMode
    abortedReason,        \* context.abortedReason (optional)
    timeoutMs,            \* CommandExecutor.timeoutMs (0: not configured)
    forceTTY,             \* CommandExecutor.forceTTY
    execCount,            \* number of executeCommand calls made so far
    failureCalls,         \* number of analyzeFailure calls made so far
    promptCount,          \* number of promptUser calls made so far
    approvedCommand,      \* command of the last APPROVE reply at the gate
    modifyCount,          \* number of MODIFY replies given so far
    verbose,              \* CommandExecutor.verbose
    output,               \* lines the engine itself wrote to the terminal
    alternativePending,   \* an alternative is stored and was not yet run
    alternativesExecuted, \* number of alternatives handed to the executor
    run,                  \* number of subprocess runs started by executeCommand
    interactive,          \* useInteractive of the current run
    resolved,             \* the flag resolved of the current run
    resolveCalls,         \* number of resolve(...) calls of the current run
    settled,              \* what the promise of the current run settled with
    timer,                \* the timeout timer of the current run
    children,             \* per run, the status of the spawned child
    listeners,            \* number of SIGINT listeners registered on process
    events,               \* events of the current run, in order of arrival
    classifiedSafe,       \* commands an analysis returned with isDangerous false
    textCalls,            \* plain-text oracle calls made by analyzeFailure
    reply,                \* the reply last typed at a [y/N/modify] prompt
    action,               \* what promptUser returned for it
    lastRun,              \* command of the last subprocess executeCommand ran
    call                  \* one executeCommand call, followed step by step

vars == << state, query, originalQuery, conversationHistory, currentAnalysis,
           lastError, isSudoRetry, sudoAttempts, attemptCount, maxTries,
           failures, autoApprove, jsonMode, abortedReason, timeoutMs, forceTTY,
           execCount, failureCalls, promptCount, approvedCommand,
           modifyCount, verbose, output, alternativePending,
           alternativesExecuted, run, interactive, resolved, resolveCalls,
           settled, timer, children, listeners, events, classifiedSafe,
           textCalls, reply, action, lastRun, call >>

(* The reply and the action of the confirmation prompt taken alone *)
prompt == << reply, action >>

(* The variables of one executeCommand promise, left alone by the handlers
   of the state machine, which see only the settled result *)
executor == << run, interactive, resolved, resolveCalls, settled, timer,
               children, listeners, events >>

(* The variables of the session that the event handlers of executeCommand
   do not touch *)
session == << state, query, originalQuery, conversationHistory,
              currentAnalysis, lastError, isSudoRetry, sudoAttempts,
              attemptCount, maxTries, failures, autoApprove, jsonMode,
              abortedReason, timeoutMs, forceTTY, execCount, failureCalls,
              promptCount, approvedCommand, modifyCount, verbose,
              alternativePending, alternativesExecuted, classifiedSafe,
              textCalls, lastRun >>

----------------------------------------------------------------------------
(* Bounds of the model *)

MaxTriesBound == 3
MaxModify == 1
MaxInterrupts == 1
MaxReplyLen == 3
MaxChunks == 2

----------------------------------------------------------------------------
(* Optional values *)

None == << >>
Some(x) == << x >>
IsSome(o) == Len(o) = 1
Get(o) == o[1]

(* JavaScript truthiness of an optional boolean: undefined and false are
   falsy. *)
Truthy(o) == o = Some(TRUE)

(* CommandState *)
ANALYZING == "analyzing"
CONFIRMING == "confirming"
EXECUTING == "executing"
FAILED == "failed"
SUCCESS == "success"
ABORTED == "aborted"

CommandState == {ANALYZING, CONFIRMING, EXECUTING, FAILED, SUCCESS, ABORTED}

(* UserAction *)
APPROVE == "approve"
REJECT == "reject"
MODIFY == "modify"

(* String.prototype.includes on a text given as a sequence of parts *)
Includes(text, part) == \E i \in 1..Len(text) : text[i] = part

----------------------------------------------------------------------------
(* Commands: sequences of shell words *)

NoCommand == << >>

Commands ==
    { << "ls" >>, << "sudo", "id" >>, << "vim" >>, << "rm", "-rf", "/" >>,
      << "sudo", "rm", "-rf", "/" >> }

(* /\bsudo\b/.test(command) *)
HasSudo(command) == Includes(command, "sudo")

(* command.includes("|") *)
HasPipe(command) == Includes(command, "|")

----------------------------------------------------------------------------
(* Oracle client *)

(* CommandAnalysisSchema: isDangerous is a required boolean (the one field
   the objects of this model may lack) *)
CommandAnalysisSchema(obj) == IsSome(obj.isDangerous)

(* FailureAnalysisSchema: all four fields are present in the objects of
   this model *)
FailureAnalysisSchema(obj) == TRUE

(* generateStructured, after the text was generated: parsed is the object
   the JSON parser recovered from it (absent when nothing was parsable),
   valid tells whether schema.parse accepts it.  A rejected object is
   returned all the same. *)
generateStructured(parsed, valid) ==
    [ data |-> IF IsSome(parsed)
               THEN IF valid THEN parsed ELSE parsed
               ELSE None ]

(* The objects the oracle's text can be parsed into for a command
   analysis. *)
AnalysisOutputs ==
    { [ command |-> << "ls" >>, explanation |-> "lists files",
        isDangerous |-> Some(FALSE), requiresExternalPackages |-> FALSE,
        externalPackages |-> {}, needsInteractiveMode |-> FALSE ],
      [ command |-> << "sudo", "id" >>, explanation |-> "prints root id",
        isDangerous |-> Some(FALSE), requiresExternalPackages |-> FALSE,
        externalPackages |-> {}, needsInteractiveMode |-> FALSE ],
      [ command |-> << "vim" >>, explanation |-> "opens editor",
        isDangerous |-> None, requiresExternalPackages |-> TRUE,
        externalPackages |-> {"vim"}, needsInteractiveMode |-> TRUE ],
      [ command |-> << "rm", "-rf", "/" >>, explanation |-> "deletes all",
        isDangerous |-> Some(TRUE), requiresExternalPackages |-> FALSE,
        externalPackages |-> {}, needsInteractiveMode |-> FALSE ] }

(* The oracle's answers to a request: any of the objects for the initial
   request, the sudo command or the dangerous one for a refined request. *)
AnswersTo(request) ==
    IF request = << "q", "0" >>
    THEN AnalysisOutputs
    ELSE { a \in AnalysisOutputs :
             a.command \in { << "sudo", "id" >>, << "rm", "-rf", "/" >> } }

(* analyzeCommand: either an analysis object, or an exception (oracle error
   or no parsable data). *)
analyzeCommand(request) ==
    LET Parsed == { Some(a) : a \in AnswersTo(request) } \cup { None }
        Results == { generateStructured(parsed,
                         IsSome(parsed)
                         /\ CommandAnalysisSchema(Get(parsed)))
                     : parsed \in Parsed }
    IN  { IF IsSome(result.data)
          THEN [ threw |-> FALSE, data |-> result.data ]
          ELSE [ threw |-> TRUE, data |-> None ]
          : result \in Results }
        \cup { [ threw |-> TRUE, data |-> None ] }

(* Alternatives the failure analysis proposes in this model. *)
AlternativeCommands == { << "sudo", "rm", "-rf", "/" >> }

(* The objects analyzeFailure can return; alternativeCommand NoCommand
   stands for null (or the empty string, which is equally falsy). *)
FailureOutputs ==
    { [ explanation |-> "why", solution |-> "fix",
        alternativeCommand |-> c, needsInteractiveMode |-> FALSE ]
      : c \in AlternativeCommands \cup { NoCommand } }

(* The object analyzeFailure builds from the plain-text answer when the
   structured request gave no data *)
FallbackWithAlternative(plainText) ==
    [ explanation |-> plainText, solution |-> "See explanation above",
      alternativeCommand |-> << "sudo", "rm", "-rf", "/" >>,
      needsInteractiveMode |-> FALSE ]

Fallback(plainText) ==
    [ explanation |-> plainText, solution |-> "See explanation above",
      alternativeCommand |-> NoCommand, needsInteractiveMode |-> FALSE ]

(* analyzeFailure: the structured request, then the plain-text request
   when it gave no data; either oracle call may raise.  calls is the number
   of oracle calls made. *)
analyzeFailure ==
    LET Parsed == { Some(f) : f \in FailureOutputs } \cup { None }
        Results == { generateStructured(parsed,
                         IsSome(parsed)
                         /\ FailureAnalysisSchema(Get(parsed)))
                     : parsed \in Parsed }
    IN  { IF IsSome(result.data)
          THEN [ threw |-> FALSE, data |-> result.data, calls |-> 1 ]
          ELSE [ threw |-> FALSE, data |-> Some(Fallback("why")),
                 calls |-> 2 ]
          : result \in Results }
        \cup { [ threw |-> TRUE, data |-> None, calls |-> c ]
               : c \in {1, 2} }

----------------------------------------------------------------------------
(* Confirmation prompt *)

Lower(ch) ==
    CASE ch = "Y" -> "y"
      [] ch = "E" -> "e"
      [] ch = "S" -> "s"
      [] ch = "N" -> "n"
      [] ch = "O" -> "o"
      [] OTHER -> ch

ToLowerCase(s) == [ i \in 1..Len(s) |-> Lower(s[i]) ]

RECURSIVE TrimStart(_)
TrimStart(s) ==
    IF s # << >> /\ Head(s) = " " THEN TrimStart(Tail(s)) ELSE s

RECURSIVE TrimEnd(_)
TrimEnd(s) ==
    IF s # << >> /\ s[Len(s)] = " "
    THEN TrimEnd(SubSeq(s, 1, Len(s) - 1))
    ELSE s

Trim(s) == TrimEnd(TrimStart(s))

(* Replies typed at the [y/N/modify] prompt, as character sequences *)
Replies ==
    { << >>, << "y" >>, << " ", "Y", "e", "s" >>, << "n" >>, << "N", "O" >>,
      << "x" >>, << "q", "1", " " >> }

(* input: response.trim() *)
ModifyInputUntrimmed(response) == response

ModifyInput(response) == Trim(response)

promptUser(response) ==
    LET trimmed == ToLowerCase(Trim(response))
    IN  IF trimmed = << "y" >> \/ trimmed = << "y", "e", "s" >>
        THEN [ type |-> APPROVE, input |-> None ]
        ELSE IF trimmed = << "n" >> \/ trimmed = << "n", "o" >>
                \/ trimmed = << >>
        THEN [ type |-> REJECT, input |-> None ]
        ELSE IF Len(trimmed) > 1
        THEN [ type |-> MODIFY, input |-> Some(ModifyInput(response)) ]
        ELSE [ type |-> REJECT, input |-> None ]

----------------------------------------------------------------------------
(* Process executor *)

(* What the child can have written to stderr by the time the run resolves *)
StderrTexts == { << >>, << "Sorry, try again" >> }

(* What has been captured of stderr when a run is cut short by the timer
   or by SIGINT *)
PartialStderr == { << >> }

(* Codes the close event can carry; None is the null code of a child that
   was ended by a signal. *)
CloseCodes == { Some(0), Some(1), Some(124), None }

(* code || 0 *)
CodeOrZero(code) == IF IsSome(code) /\ Get(code) # 0 THEN Get(code) ELSE 0

(* authenticateSudo: sudo -S -v fed with the password *)
authenticateSudo ==
    { [ exitCode |-> 0, stdout |-> << >>, stderr |-> << >> ],
      [ exitCode |-> 1, stdout |-> << >>,
        stderr |-> << "Sorry, try again" >> ],
      [ exitCode |-> 1, stdout |-> << >>, stderr |-> << "spawn sudo ENOENT" >> ] }

(* The promise of executeCommand: the first of timeout, close, error and
   SIGINT resolves it. *)
SpawnResults(useInteractive) ==
    LET Captured == IF useInteractive THEN { << >> } ELSE StderrTexts
        Partial == IF useInteractive THEN { << >> } ELSE PartialStderr
    IN  { [ exitCode |-> 124, stdout |-> << >>,
            stderr |-> Append(e, "Command timed out") ]
          : e \in IF timeoutMs # 0 THEN Partial ELSE {} }
        \cup
        { [ exitCode |-> CodeOrZero(code),
            stdout |-> IF useInteractive
                       THEN << "Interactive command completed" >>
                       ELSE << >>,
            stderr |-> e ]
          : code \in CloseCodes, e \in Captured }
        \cup
        { [ exitCode |-> 1, stdout |-> << >>, stderr |-> << "spawn sh ENOENT" >> ] }
        \cup
        { [ exitCode |-> 130, stdout |-> << >>,
            stderr |-> Append(e, "Command interrupted by user") ]
          : e \in Partial }

(* The result of the error handler: sh itself could not be started.
   handleFailed treats it like any other exit code 1 without an
   authentication phrase, so the session is explored with the results of
   the other three handlers; the event-level model covers all four. *)
ShellNotStarted ==
    { [ exitCode |-> 1, stdout |-> << >>, stderr |-> << "spawn sh ENOENT" >> ] }

(* executeCommand: the password prompt may be cancelled (threw); a piped
   sudo command is authenticated first and a failed authentication is
   returned without spawning the command. *)
executeCommand(command, needsInteractiveMode, sudoRetry) ==
    LET askPassword == HasSudo(command) /\ ~needsInteractiveMode
        useInteractive == forceTTY \/ needsInteractiveMode
        Spawned == { [ threw |-> FALSE, spawned |-> TRUE, result |-> r ]
                     : r \in SpawnResults(useInteractive) \ ShellNotStarted }
        Cancelled == { [ threw |-> TRUE, spawned |-> FALSE,
                         result |-> [ exitCode |-> 1, stdout |-> << >>,
                                      stderr |-> << >> ] ] }
    IN  IF ~askPassword
        THEN Spawned
        ELSE IF HasPipe(command)
        THEN Cancelled
             \cup { [ threw |-> FALSE, spawned |-> FALSE, result |-> a ]
                    : a \in { x \in authenticateSudo : x.exitCode # 0 } }
             \cup (IF \E x \in authenticateSudo : x.exitCode = 0
                   THEN Spawned ELSE {})
        ELSE Cancelled \cup Spawned

(* executeCommand before it is called: nothing asked, nothing spawned *)
NotCalled ==
    [ phase |-> "idle", command |-> NoCommand, needsInteractiveMode |-> FALSE,
      sudoPassword |-> None, refreshes |-> 0, authResult |-> None,
      spawns |-> 0, shell |-> NoCommand, stdin |-> "none", chunks |-> 0,
      prompts |-> 0, passwordSent |-> FALSE, pendingWrite |-> FALSE,
      written |-> 0, result |-> None ]

----------------------------------------------------------------------------
(* Session state machine *)

config == << originalQuery, maxTries, autoApprove, jsonMode, timeoutMs,
             forceTTY, verbose >>

Init ==
    /\ state = ANALYZING
    /\ query = << "q", "0" >>
    /\ originalQuery = query
    /\ conversationHistory = << >>
    /\ currentAnalysis = None
    /\ lastError = None
    /\ isSudoRetry = None
    /\ sudoAttempts = None
    /\ attemptCount = 0
    /\ maxTries \in 0..MaxTriesBound
    /\ failures = << >>
    /\ autoApprove \in BOOLEAN
    /\ jsonMode \in BOOLEAN
    /\ abortedReason = None
    /\ timeoutMs \in {0, 1000}
    /\ forceTTY \in BOOLEAN
    /\ execCount = 0
    /\ failureCalls = 0
    /\ promptCount = 0
    /\ approvedCommand = NoCommand
    /\ modifyCount = 0
    /\ verbose = FALSE
    /\ output = << >>
    /\ alternativePending = FALSE
    /\ alternativesExecuted = 0
    /\ run = 0
    /\ interactive = FALSE
    /\ resolved = FALSE
    /\ resolveCalls = 0
    /\ settled = None
    /\ timer = "unset"
    /\ children = << >>
    /\ listeners = 0
    /\ events = << >>
    /\ classifiedSafe = {}
    /\ textCalls = 0
    /\ reply = << >>
    /\ action = None
    /\ lastRun = NoCommand
    /\ call = NotCalled

(* context.abortedReason = context.abortedReason || reason;
   context.state = ABORTED *)
AbortOverwritesAndContinues(reason) ==
    /\ abortedReason' = Some(reason)
    /\ state' = state

Abort(reason) ==
    /\ abortedReason' = IF IsSome(abortedReason) THEN abortedReason
                        ELSE Some(reason)
    /\ state' = ABORTED

(* catch block of execute: the error is logged, the session aborted *)
CatchErrorAsAnalysisFailure ==
    /\ Abort("failure-analysis-error")
    /\ output' = Append(output, "Error: ")

CatchErrorWithoutReason ==
    /\ state' = ABORTED
    /\ UNCHANGED abortedReason
    /\ output' = Append(output, "Error: ")

CatchError ==
    /\ Abort("unexpected-error")
    /\ output' = Append(output, "Error: ")

(* displayCommandAnalysis *)
displayCommandAnalysis(analysis) ==
    IF ~jsonMode
    THEN << "command" >>
         \o (IF verbose
             THEN << "explanation" >>
                  \o (IF /\ analysis.requiresExternalPackages
                         /\ analysis.externalPackages # {}
                      THEN << "Requires external packages: " >>
                      ELSE << >>)
             ELSE << >>)
         \o (IF Truthy(analysis.isDangerous) THEN << "[BLOCKED]" >> ELSE << >>)
    ELSE << >>

(* displayFailureAnalysis *)
displayFailureAnalysis(analysis) ==
    IF ~jsonMode
    THEN << "explanation" >>
         \o (IF verbose /\ analysis.solution # analysis.explanation
             THEN << "Solution: " >> ELSE << >>)
         \o (IF analysis.alternativeCommand # NoCommand
             THEN << "alternative" >> ELSE << >>)
    ELSE << >>

(* isPermissionError *)
isPermissionError(stderr) ==
    \/ Includes(stderr, "Permission denied")
    \/ Includes(stderr, "Operation not permitted")
    \/ Includes(stderr, "Sorry, try again")
    \/ Includes(stderr, "sudo: 3 incorrect password attempts")
    \/ Includes(stderr, "authentication failure")

(* The SIGINT handler of executeCommand resolved the run *)
Interrupted(result) ==
    /\ result.exitCode = 130
    /\ Includes(result.stderr, "Command interrupted by user")

(* catch block of handleFailed *)
UnableToAnalyze == << "(Unable to analyze failure)", "Analysis error: " >>

(* updateConversationHistory *)
updateConversationHistoryWithoutSuggestion(userInput) ==
    IF ~IsSome(currentAnalysis)
    THEN conversationHistory
    ELSE conversationHistory \o
         << [ role |-> "user", content |-> << "I want to: " >> \o query ],
            [ role |-> "user", content |-> userInput ] >>

updateConversationHistory(userInput) ==
    IF ~IsSome(currentAnalysis)
    THEN conversationHistory
    ELSE conversationHistory \o
         << [ role |-> "user",
              content |-> IF query = originalQuery
                          THEN << "I want to: " >> \o query
                          ELSE << "Based on our previous discussion, I want to: " >>
                               \o query ],
            [ role |-> "assistant",
              content |-> << "I suggest this command: " >>
                          \o Get(currentAnalysis).command
                          \o << "Explanation: ",
                                Get(currentAnalysis).explanation >> ],
            [ role |-> "user", content |-> userInput ] >>

(* addFailureToHistory *)
addFailureToHistory(failureAnalysis) ==
    IF ~IsSome(lastError) \/ ~IsSome(currentAnalysis)
    THEN conversationHistory
    ELSE LET failed == << "The command failed with exit code ",
                          ToString(Get(lastError).exitCode), "Error: " >>
                       \o Get(lastError).stderr
             failureMessage ==
                 IF failureAnalysis.alternativeCommand # NoCommand
                 THEN failed \o << "I suggest this alternative: " >>
                      \o failureAnalysis.alternativeCommand
                      \o << "Explanation: ", failureAnalysis.explanation >>
                 ELSE failed
                      \o << "Explanation: ", failureAnalysis.explanation,
                            "Solution: ", failureAnalysis.solution >>
         IN  conversationHistory \o
             << [ role |-> "user", content |-> << "Execute the command" >> ],
                [ role |-> "assistant", content |-> failureMessage ] >>

(* An entry of context.failures *)
FailureEntry(err, explanation, solution, alternativeCommand) ==
    [ command |-> err.command, exitCode |-> err.exitCode,
      stdout |-> err.stdout, stderr |-> err.stderr,
      explanation |-> explanation, solution |-> solution,
      alternativeCommand |-> alternativeCommand ]

(* The stderr test that selects the sudo authentication path *)
IsSudoAuthFailure(stderr) ==
    \/ Includes(stderr, "Sorry, try again")
    \/ Includes(stderr, "incorrect password")
    \/ Includes(stderr, "authentication failure")

(* if (analysis.isDangerous) *)
DangerCheckSkipped(analysis) == FALSE

DangerCheck(analysis) == Truthy(analysis.isDangerous)

(* if (context.lastError.exitCode === 124) *)
IsTimeoutNever(err) == FALSE

IsTimeout(err) == err.exitCode = 124

(* context.sudoAttempts < 3 *)
SudoRetryAllowedOffByOne(attempts) == attempts <= 3

SudoRetryAllowed(attempts) == attempts < 3

(* Loop guard check before retrying a sudo command *)
SudoRetryGuardMissing == FALSE

SudoRetryGuard == attemptCount >= maxTries

(* Loop guard after recording failure *)
LoopGuardOffByOne == attemptCount > maxTries

LoopGuard == attemptCount >= maxTries

(* context.state = context.autoApprove ? EXECUTING : CONFIRMING *)
AlternativeAlwaysExecuted == EXECUTING

AlternativeAlwaysConfirmed == CONFIRMING

AlternativeNextState == IF autoApprove THEN EXECUTING ELSE CONFIRMING

HandleAnalyzing ==
    /\ state = ANALYZING
    /\ \E out \in analyzeCommand(query) :
         IF out.threw
         THEN /\ CatchError
              /\ UNCHANGED << currentAnalysis, alternativePending,
                              classifiedSafe >>
         ELSE /\ currentAnalysis' = out.data
              /\ alternativePending' = FALSE
              /\ classifiedSafe' =
                     IF Get(out.data).isDangerous = Some(FALSE)
                     THEN classifiedSafe \cup { Get(out.data).command }
                     ELSE classifiedSafe
              /\ output' = output \o displayCommandAnalysis(Get(out.data))
              /\ IF DangerCheck(Get(out.data))
                 THEN /\ abortedReason' = Some("dangerous-command")
                      /\ state' = ABORTED
                 ELSE /\ state' = CONFIRMING
                      /\ UNCHANGED abortedReason
    /\ UNCHANGED << query, conversationHistory, lastError, isSudoRetry,
                    sudoAttempts, attemptCount, failures, execCount,
                    failureCalls, promptCount, approvedCommand, modifyCount,
                    alternativesExecuted, textCalls, lastRun, config, executor,
                    prompt, call >>

(* if (context.autoApprove), in handleConfirming *)
GateNeverBypassed == FALSE

GateBypassed == autoApprove

HandleConfirming ==
    /\ state = CONFIRMING
    /\ IF ~IsSome(currentAnalysis)
       THEN /\ Abort("missing-analysis")
            /\ UNCHANGED << query, conversationHistory, approvedCommand,
                            modifyCount, promptCount, output >>
       ELSE IF GateBypassed
       THEN /\ state' = EXECUTING
            /\ UNCHANGED << abortedReason, query, conversationHistory,
                            approvedCommand, modifyCount, promptCount,
                            output >>
       ELSE /\ promptCount' = promptCount + 1
            /\ \/ \E response \in Replies :
                    LET userAction == promptUser(response)
                    IN  CASE userAction.type = APPROVE ->
                               /\ state' = EXECUTING
                               /\ approvedCommand' = Get(currentAnalysis).command
                               /\ UNCHANGED << abortedReason, query,
                                               conversationHistory, modifyCount,
                                               output >>
                          [] userAction.type = REJECT ->
                               /\ Abort("user-rejected")
                               /\ UNCHANGED << query, conversationHistory,
                                               approvedCommand, modifyCount,
                                               output >>
                          [] userAction.type = MODIFY ->
                               /\ modifyCount < MaxModify
                               /\ IF Get(userAction.input) # << >>
                                  THEN /\ conversationHistory' =
                                            updateConversationHistory(
                                                Get(userAction.input))
                                       /\ query' = Get(userAction.input)
                                       /\ state' = ANALYZING
                                       /\ output' = Append(output,
                                            "Refining command based on: ")
                                  ELSE UNCHANGED << conversationHistory, query,
                                                    state, output >>
                               /\ modifyCount' = modifyCount + 1
                               /\ UNCHANGED << abortedReason, approvedCommand >>
               \/ /\ CatchError
                  /\ UNCHANGED << query, conversationHistory, approvedCommand,
                                  modifyCount >>
    /\ UNCHANGED << currentAnalysis, lastError, isSudoRetry, sudoAttempts,
                    attemptCount, failures, execCount, failureCalls,
                    alternativePending, alternativesExecuted, classifiedSafe,
                    textCalls, lastRun, config, executor, prompt, call >>

(* context.lastError = { command, ...result } *)
ErrorContextDropped(command, result) == None

ErrorContext(command, result) ==
    Some([ command |-> command, exitCode |-> result.exitCode,
           stdout |-> result.stdout, stderr |-> result.stderr ])

(* context.isSudoRetry = false, after executeCommand returned *)
SudoRetryFlagKept == isSudoRetry

SudoRetryFlagReset == Some(FALSE)

(* context.attemptCount += 1, on a non-zero exit code *)
AttemptsSkippingSudoFailures(result) ==
    IF IsSudoAuthFailure(result.stderr) THEN attemptCount
    ELSE attemptCount + 1

AttemptsAfterFailure(result) == attemptCount + 1

HandleExecuting ==
    /\ state = EXECUTING
    /\ IF ~IsSome(currentAnalysis)
       THEN /\ Abort("missing-analysis")
            /\ UNCHANGED << isSudoRetry, sudoAttempts, lastError,
                            attemptCount, execCount, output,
                            alternativePending, alternativesExecuted,
                            lastRun >>
       ELSE /\ execCount' = execCount + 1
            /\ \E out \in executeCommand(
                              Get(currentAnalysis).command,
                              Get(currentAnalysis).needsInteractiveMode,
                              isSudoRetry = Some(TRUE)) :
                 IF out.threw
                 THEN /\ CatchError
                      /\ UNCHANGED << isSudoRetry, sudoAttempts, lastError,
                                      attemptCount, alternativePending,
                                      alternativesExecuted, lastRun >>
                 ELSE /\ isSudoRetry' = SudoRetryFlagReset
                      /\ lastRun' = IF out.spawned
                                    THEN Get(currentAnalysis).command
                                    ELSE lastRun
                      /\ alternativePending' = FALSE
                      /\ alternativesExecuted' =
                             IF alternativePending
                             THEN alternativesExecuted + 1
                             ELSE alternativesExecuted
                      /\ output' = IF Interrupted(out.result)
                                   THEN Append(output, "Command interrupted")
                                   ELSE output
                      /\ IF out.result.exitCode = 0
                         THEN /\ sudoAttempts' = Some(0)
                              /\ state' = SUCCESS
                              /\ UNCHANGED << lastError, attemptCount,
                                              abortedReason >>
                         ELSE /\ lastError' =
                                    ErrorContext(Get(currentAnalysis).command,
                                                 out.result)
                              /\ attemptCount' =
                                     AttemptsAfterFailure(out.result)
                              /\ state' = FAILED
                              /\ UNCHANGED << sudoAttempts, abortedReason >>
    /\ UNCHANGED << query, conversationHistory, currentAnalysis, failures,
                    failureCalls, promptCount, approvedCommand, modifyCount,
                    classifiedSafe, textCalls, config, executor, prompt, call >>

(* handleFailed, timeout branch: exit code 124 *)
FailedTimeout(err) ==
    /\ output' = Append(output, "timed out")
    /\ failures' = Append(failures,
           FailureEntry(err, Some("Command timed out"),
                        Some("Increase timeout or optimize command"),
                        NoCommand))
    /\ Abort("timeout")
    /\ UNCHANGED << query, conversationHistory, currentAnalysis, isSudoRetry,
                    sudoAttempts, failureCalls, promptCount, modifyCount,
                    alternativePending, textCalls >>

(* handleFailed, sudo authentication branch *)
FailedSudoAuth(err) ==
    LET attempts == (IF IsSome(sudoAttempts) THEN Get(sudoAttempts) ELSE 0) + 1
        said == Append(output, "Authentication failed")
    IN  /\ sudoAttempts' = Some(attempts)
        /\ failures' = Append(failures,
               FailureEntry(err,
                   Some("Authentication failed (incorrect sudo password)"),
                   None, NoCommand))
        /\ IF SudoRetryAllowed(attempts)
           THEN /\ isSudoRetry' = Some(TRUE)
                /\ IF SudoRetryGuard
                   THEN /\ Abort("max-tries-exceeded")
                        /\ output' = said \o
                               << "Try again with the correct password.",
                                  "Max tries reached." >>
                   ELSE /\ state' = EXECUTING
                        /\ output' = Append(said,
                               "Try again with the correct password.")
                        /\ UNCHANGED abortedReason
           ELSE /\ Abort("sudo-auth-failed")
                /\ output' = Append(said,
                       "sudo: 3 incorrect password attempts")
                /\ UNCHANGED isSudoRetry
        /\ UNCHANGED << query, conversationHistory, currentAnalysis,
                        failureCalls, promptCount, modifyCount,
                        alternativePending, textCalls >>

(* the reason of an interactive decline after a failure *)
DeclineReasonAsRejection == "user-rejected"

DeclineReason == "user-aborted"

(* handleFailed, general path: failure analysis, loop guard, alternative *)
FailedAnalysis(err) ==
    LET noted == IF isPermissionError(err.stderr)
                 THEN Append(output, "Permission denied.")
                 ELSE output
    IN
    /\ failureCalls' = failureCalls + 1
    /\ \E out \in analyzeFailure :
         /\ textCalls' = textCalls + (out.calls - 1)
         /\ IF out.threw
            THEN /\ Abort("failure-analysis-error")
                 /\ output' = noted \o UnableToAnalyze
                 /\ UNCHANGED << query, conversationHistory, currentAnalysis,
                                 failures, promptCount, modifyCount,
                                 alternativePending >>
            ELSE LET failureAnalysis == Get(out.data)
                     shown == noted \o displayFailureAnalysis(failureAnalysis)
                 IN  /\ conversationHistory' =
                            addFailureToHistory(failureAnalysis)
                     /\ failures' = Append(failures,
                            FailureEntry(err, Some(failureAnalysis.explanation),
                                         Some(failureAnalysis.solution),
                                         failureAnalysis.alternativeCommand))
                     /\ IF LoopGuard
                        THEN /\ Abort("max-tries-exceeded")
                             /\ output' = Append(shown, "Max tries reached.")
                             /\ UNCHANGED << query, currentAnalysis,
                                             promptCount, modifyCount,
                                             alternativePending >>
                        ELSE IF failureAnalysis.alternativeCommand # NoCommand
                        THEN /\ currentAnalysis' =
                                  Some([ Get(currentAnalysis) EXCEPT
                                      !.command =
                                          failureAnalysis.alternativeCommand,
                                      !.explanation = failureAnalysis.solution,
                                      !.needsInteractiveMode =
                                          failureAnalysis.needsInteractiveMode ])
                             /\ state' = AlternativeNextState
                             /\ alternativePending' = TRUE
                             /\ output' = shown
                             /\ UNCHANGED << abortedReason, query, promptCount,
                                             modifyCount >>
                        ELSE LET told == Append(shown,
                                     "No alternative command suggested.")
                             IN
                             IF autoApprove
                        THEN /\ Abort("no-alternative")
                             /\ output' = told
                             /\ UNCHANGED << query, currentAnalysis,
                                             promptCount, modifyCount,
                                             alternativePending >>
                        ELSE /\ promptCount' = promptCount + 1
                             /\ UNCHANGED alternativePending
                             /\ \/ \E response \in Replies :
                                     LET userAction == promptUser(response)
                                     IN  IF /\ userAction.type = MODIFY
                                            /\ Get(userAction.input) # << >>
                                         THEN /\ modifyCount < MaxModify
                                              /\ query' = Get(userAction.input)
                                              /\ state' = ANALYZING
                                              /\ modifyCount' = modifyCount + 1
                                              /\ output' = Append(told,
                                                     "Refining based on: ")
                                              /\ UNCHANGED << abortedReason,
                                                              currentAnalysis >>
                                         ELSE /\ Abort(DeclineReason)
                                              /\ output' = told
                                              /\ UNCHANGED << query,
                                                              currentAnalysis,
                                                              modifyCount >>
                                \/ /\ Abort("failure-analysis-error")
                                   /\ output' = told \o UnableToAnalyze
                                   /\ UNCHANGED << query, currentAnalysis,
                                                   modifyCount >>
    /\ UNCHANGED << isSudoRetry, sudoAttempts >>

HandleFailed ==
    /\ state = FAILED
    /\ IF ~IsSome(lastError) \/ ~IsSome(currentAnalysis)
       THEN /\ Abort("missing-error-context")
            /\ UNCHANGED << query, conversationHistory, currentAnalysis,
                            isSudoRetry, sudoAttempts, failures,
                            failureCalls, promptCount, modifyCount, output,
                            alternativePending, textCalls >>
       ELSE IF IsTimeout(Get(lastError))
       THEN FailedTimeout(Get(lastError))
       ELSE IF IsSudoAuthFailure(Get(lastError).stderr)
       THEN FailedSudoAuth(Get(lastError))
       ELSE FailedAnalysis(Get(lastError))
    /\ UNCHANGED << lastError, attemptCount, execCount, approvedCommand,
                    alternativesExecuted, classifiedSafe, lastRun, config, executor,
                    prompt, call >>

(* The summary object built at the end of execute *)
Summary ==
    [ status |-> state,
      success |-> state = SUCCESS,
      abortedReason |-> abortedReason,
      originalQuery |-> originalQuery,
      finalQuery |-> query,
      finalCommand |->
          IF IsSome(currentAnalysis) /\ Get(currentAnalysis).command # << >>
          THEN Get(currentAnalysis).command
          ELSE IF IsSome(lastError) THEN Get(lastError).command
          ELSE NoCommand,
      explanation |-> IF IsSome(currentAnalysis)
                      THEN Some(Get(currentAnalysis).explanation) ELSE None,
      attempts |-> attemptCount,
      failures |-> failures,
      alternativesTried |->
          Cardinality({ i \in 1..Len(failures) :
                          failures[i].alternativeCommand # NoCommand }) ]

(* if (context.jsonMode), after the loop of execute *)
SummaryAlways == TRUE

SummaryRequested == jsonMode

(* execute, after the loop: the JSON summary is printed in jsonMode *)
EmitSummaryResettingQuery ==
    /\ state \in {SUCCESS, ABORTED}
    /\ SummaryRequested
    /\ ~Includes(output, "JSON summary")
    /\ output' = Append(output, "JSON summary")
    /\ query' = originalQuery
    /\ UNCHANGED << state, conversationHistory, currentAnalysis,
                    lastError, isSudoRetry, sudoAttempts, attemptCount,
                    failures, abortedReason, execCount, failureCalls,
                    promptCount, approvedCommand, modifyCount,
                    alternativePending, alternativesExecuted, classifiedSafe,
                    textCalls, lastRun, config, executor, prompt, call >>

EmitSummary ==
    /\ state \in {SUCCESS, ABORTED}
    /\ SummaryRequested
    /\ ~Includes(output, "JSON summary")
    /\ output' = Append(output, "JSON summary")
    /\ UNCHANGED << state, query, conversationHistory, currentAnalysis,
                    lastError, isSudoRetry, sudoAttempts, attemptCount,
                    failures, abortedReason, execCount, failureCalls,
                    promptCount, approvedCommand, modifyCount,
                    alternativePending, alternativesExecuted, classifiedSafe,
                    textCalls, lastRun, config, executor, prompt, call >>

(* processState: one handler per iteration of the loop in execute *)
Next ==
    \/ HandleAnalyzing
    \/ HandleConfirming
    \/ HandleExecuting
    \/ HandleFailed
    \/ EmitSummary

Spec == Init /\ [][Next]_vars

(* Every awaited oracle call, prompt and subprocess returns *)
FairSpec == Spec /\ WF_vars(Next)

(* The sessions started with -y / --yes, under the same fairness *)
AutoApproveInit == Init /\ autoApprove

AutoApproveFairSpec ==
    AutoApproveInit /\ [][Next]_vars /\ WF_vars(Next)

----------------------------------------------------------------------------
(* The promise of executeCommand, event by event: the timer callback, the
   close and error handlers of the child and the SIGINT listener race for
   the flag resolved.  A promise settles with the value of the first
   resolve call; later calls are ignored by the runtime. *)

(* resolve({...}) preceded by resolved = true *)
Settle(r) ==
    /\ resolved' = TRUE
    /\ resolveCalls' = resolveCalls + 1
    /\ settled' = IF IsSome(settled) THEN settled ELSE Some(r)

(* if (timeout) clearTimeout(timeout) *)
Cleared == IF timer = "armed" THEN "cleared" ELSE timer

(* if (!resolved), in the close handler *)
CloseGuardMissing == TRUE

CloseGuard == ~resolved

(* An event of the current run *)
Event(kind, code, text) == [ kind |-> kind, code |-> code, text |-> text ]

Seen(kind) == \E i \in 1..Len(events) : events[i].kind = kind

(* sh could not be started and the error event is still to be delivered;
   it is emitted before any timer or signal callback can run *)
ErrorPending == run >= 1 /\ children[run] = "failed" /\ ~Seen("error")

(* executeCommand, body of the promise: spawn the child, arm the timer,
   register the handlers.  handleExecuting calls it again only after the
   previous promise settled with a failure other than a timeout and the
   loop guard let the session continue. *)
Spawn(needsInteractiveMode, status) ==
    /\ \/ run = 0
       \/ /\ IsSome(settled)
          /\ Get(settled).exitCode \notin {0, 124}
          /\ run < maxTries
    /\ run' = run + 1
    /\ interactive' = (forceTTY \/ needsInteractiveMode)
    /\ resolved' = FALSE
    /\ resolveCalls' = 0
    /\ settled' = None
    /\ timer' = IF timeoutMs # 0 THEN "armed" ELSE "unset"
    /\ children' = Append(children, status)
    /\ listeners' = listeners + 1
    /\ events' = << >>
    /\ UNCHANGED << session, output, prompt, call >>

(* The callback of setTimeout *)
TimeoutFires ==
    /\ timer = "armed"
    /\ ~ErrorPending
    /\ timer' = "fired"
    /\ events' = Append(events, Event("timeout", None, << >>))
    /\ IF ~resolved
       THEN Settle([ exitCode |-> 124, stdout |-> << >>,
                     stderr |-> << "Command timed out" >> ])
       ELSE UNCHANGED << resolved, resolveCalls, settled >>
    /\ UNCHANGED << run, interactive, children, listeners, session, output, prompt, call >>

(* child.on("close"): the child of run i exits.  The handler of an earlier
   run finds its own flag set. *)
ChildCloses ==
    \E i \in 1..run, code \in CloseCodes,
       e \in (IF interactive THEN { << >> } ELSE StderrTexts) :
        /\ children[i] = "running"
        /\ children' = [ children EXCEPT ![i] = "exited" ]
        /\ IF i = run
           THEN /\ events' = Append(events, Event("close", code, e))
                /\ IF CloseGuard
                   THEN /\ Settle([ exitCode |-> CodeOrZero(code),
                                    stdout |-> IF interactive
                                               THEN << "Interactive command completed" >>
                                               ELSE << >>,
                                    stderr |-> e ])
                        /\ timer' = Cleared
                   ELSE UNCHANGED << resolved, resolveCalls, settled, timer >>
           ELSE UNCHANGED << events, resolved, resolveCalls, settled, timer >>
        /\ UNCHANGED << run, interactive, listeners, session, output, prompt, call >>

(* child.on("error") *)
SpawnError ==
    /\ ErrorPending
    /\ events' = Append(events, Event("error", None, << "spawn sh ENOENT" >>))
    /\ IF ~resolved
       THEN /\ Settle([ exitCode |-> 1, stdout |-> << >>,
                        stderr |-> << "spawn sh ENOENT" >> ])
            /\ timer' = Cleared
       ELSE UNCHANGED << resolved, resolveCalls, settled, timer >>
    /\ UNCHANGED << run, interactive, children, listeners, session, output, prompt, call >>

(* SIGINT is delivered to every listener registered with process.on; the
   listeners of earlier runs find their own flag set. *)
Interrupt ==
    /\ run >= 1
    /\ ~ErrorPending
    /\ Cardinality({ i \in 1..Len(events) : events[i].kind = "SIGINT" })
          < MaxInterrupts
    /\ events' = Append(events, Event("SIGINT", None, << >>))
    /\ IF ~resolved
       THEN /\ Settle([ exitCode |-> 130, stdout |-> << >>,
                        stderr |-> << "Command interrupted by user" >> ])
            /\ timer' = Cleared
            /\ output' = Append(output, "Command interrupted")
       ELSE UNCHANGED << resolved, resolveCalls, settled, timer, output >>
    /\ UNCHANGED << run, interactive, children, listeners, session, prompt, call >>

ExecNext ==
    \/ \E needsInteractiveMode \in BOOLEAN, status \in {"running", "failed"} :
          Spawn(needsInteractiveMode, status)
    \/ TimeoutFires
    \/ ChildCloses
    \/ SpawnError
    \/ Interrupt

ExecSpec == Init /\ [][ExecNext]_vars

----------------------------------------------------------------------------
(* promptUser taken alone, over every reply of bounded length *)

ReplyChars == { "y", "e", "s", "n", "o", "Y", " ", "x" }

AllReplies == UNION { [ 1..n -> ReplyChars ] : n \in 0..MaxReplyLen }

(* One call of promptUser *)
Ask ==
    /\ action = None
    /\ \E response \in AllReplies :
         /\ reply' = response
         /\ action' = Some(promptUser(response))
    /\ UNCHANGED << session, output, executor, call >>

PromptNext == Ask

PromptSpec == Init /\ [][PromptNext]_vars

----------------------------------------------------------------------------
(* executeCommand step by step, for the sudo password: the masked prompt,
   authenticateSudo for a command with a pipe, the choice of stdio, the
   stderr handler that writes the password, and the settled result. *)

(* The commands executeCommand is called with *)
CalledCommands ==
    Commands \cup { << "cat", "f", "|", "sudo", "tee", "g" >> }

(* command.replace(/\bsudo\b/g, "sudo -S") *)
SudoS(command) ==
    [ i \in 1..Len(command) |->
        IF command[i] = "sudo" THEN "sudo -S" ELSE command[i] ]

(* sudoPassword && !command.includes("|") *)
needsPipedStdin(c) == IsSome(c.sudoPassword) /\ ~HasPipe(c.command)

(* The stdin entry of the stdio option of spawn *)
stdio(useInteractive, piped) ==
    IF useInteractive THEN "inherit"
    ELSE IF piped THEN "pipe" ELSE "inherit"

(* spawn("sh", ["-c", wrappedCommand], {stdio}) *)
SpawnShell(c, shell) ==
    [ c EXCEPT !.phase = "running",
               !.spawns = c.spawns + 1,
               !.shell = shell,
               !.stdin = stdio(forceTTY \/ c.needsInteractiveMode,
                               needsPipedStdin(c)) ]

(* if (authResult.exitCode !== 0) return authResult *)
RefreshFailedIgnored(authResult) == FALSE

RefreshFailed(authResult) == authResult.exitCode # 0

(* executeCommand is entered: the password prompt is shown for a sudo
   command that is not interactive, otherwise sh is spawned at once *)
Called ==
    /\ call.phase = "idle"
    /\ \E command \in CalledCommands, needsInteractiveMode \in BOOLEAN :
         LET c == [ call EXCEPT !.command = command,
                                !.needsInteractiveMode = needsInteractiveMode ]
         IN  call' = IF HasSudo(command) /\ ~needsInteractiveMode
                     THEN [ c EXCEPT !.phase = "password" ]
                     ELSE SpawnShell(c, command)
    /\ UNCHANGED << session, output, executor, prompt >>

(* password({...}) resolves: a command with a pipe is authenticated with
   sudo -S -v, which is written the password; any other command is
   rewritten to sudo -S and spawned *)
PasswordEntered ==
    /\ call.phase = "password"
    /\ LET c == [ call EXCEPT !.sudoPassword = Some("secret") ]
       IN  call' = IF HasPipe(c.command)
                   THEN [ c EXCEPT !.phase = "authenticating",
                                   !.refreshes = c.refreshes + 1 ]
                   ELSE SpawnShell(c, SudoS(c.command))
    /\ UNCHANGED << session, output, executor, prompt >>

(* password({...}) rejects: executeCommand throws *)
PasswordCancelled ==
    /\ call.phase = "password"
    /\ call' = [ call EXCEPT !.phase = "threw" ]
    /\ UNCHANGED << session, output, executor, prompt >>

(* authenticateSudo, child.on("close"), and the test of its result in
   executeCommand *)
RefreshCloses ==
    /\ call.phase = "authenticating"
    /\ \E code \in CloseCodes, e \in StderrTexts :
         LET authResult == [ exitCode |-> CodeOrZero(code),
                             stdout |-> << >>, stderr |-> e ]
             c == [ call EXCEPT !.authResult = Some(authResult) ]
         IN  call' = IF RefreshFailed(authResult)
                     THEN [ c EXCEPT !.phase = "returned",
                                     !.result = Some(authResult) ]
                     ELSE SpawnShell(c, c.command)
    /\ UNCHANGED << session, output, executor, prompt >>

(* authenticateSudo, child.on("error"): sudo could not be started *)
RefreshError ==
    /\ call.phase = "authenticating"
    /\ LET authResult == [ exitCode |-> 1, stdout |-> << >>,
                           stderr |-> << "spawn sudo ENOENT" >> ]
           c == [ call EXCEPT !.authResult = Some(authResult) ]
       IN  call' = IF RefreshFailed(authResult)
                   THEN [ c EXCEPT !.phase = "returned",
                                   !.result = Some(authResult) ]
                   ELSE SpawnShell(c, c.command)
    /\ UNCHANGED << session, output, executor, prompt >>

(* child.stderr.on("data"), registered when the run is not interactive:
   a chunk that is a sudo prompt makes the handler schedule the write of
   the password, once *)
StderrData ==
    /\ call.phase = "running"
    /\ ~(forceTTY \/ call.needsInteractiveMode)
    /\ call.chunks < MaxChunks
    /\ \E isSudoPrompt \in BOOLEAN :
         LET c == [ call EXCEPT !.chunks = call.chunks + 1,
                                !.prompts = call.prompts
                                            + (IF isSudoPrompt THEN 1 ELSE 0) ]
         IN  call' = IF /\ IsSome(c.sudoPassword)
                        /\ ~c.passwordSent
                        /\ isSudoPrompt
                        /\ ~HasPipe(c.command)
                     THEN [ c EXCEPT !.passwordSent = TRUE,
                                     !.pendingWrite = (c.stdin = "pipe") ]
                     ELSE c
    /\ UNCHANGED << session, output, executor, prompt >>

(* The callback of setTimeout(..., 50): child.stdin.write(sudoPassword) *)
WriteTimerFires ==
    /\ call.pendingWrite
    /\ call' = [ call EXCEPT !.pendingWrite = FALSE,
                             !.written = call.written + 1 ]
    /\ UNCHANGED << session, output, executor, prompt >>

(* The promise of the run settles *)
Resolves ==
    /\ call.phase = "running"
    /\ \E r \in SpawnResults(forceTTY \/ call.needsInteractiveMode) :
         call' = [ call EXCEPT !.phase = "returned", !.result = Some(r) ]
    /\ UNCHANGED << session, output, executor, prompt >>

SudoNext ==
    \/ Called
    \/ PasswordEntered
    \/ PasswordCancelled
    \/ RefreshCloses
    \/ RefreshError
    \/ StderrData
    \/ WriteTimerFires
    \/ Resolves

SudoSpec == Init /\ [][SudoNext]_vars

Terminal == state \in {SUCCESS, ABORTED}

----------------------------------------------------------------------------
(* Properties *)

(* The entry handleFailed appends for the error err *)
IsEntryFor(entry, err) ==
    /\ entry.command = err.command
    /\ entry.exitCode = err.exitCode
    /\ entry.stderr = err.stderr

(* C1: a command analysis flagged dangerous sends the session to ABORTED
   with reason "dangerous-command" without any hand-off to the process
   executor, and no state EXECUTING holds an analysis whose isDangerous is
   true. *)
C1_DangerousNeverExecuted ==
    /\ [](state = EXECUTING =>
            /\ IsSome(currentAnalysis)
            /\ ~Truthy(Get(currentAnalysis).isDangerous))
    /\ [][(/\ state = ANALYZING
           /\ currentAnalysis' # currentAnalysis
           /\ Truthy(Get(currentAnalysis').isDangerous))
          => (/\ state' = ABORTED
              /\ abortedReason' = Some("dangerous-command")
              /\ execCount' = execCount)]_vars

C1_Witness ==
    /\ state = ABORTED
    /\ abortedReason = Some("dangerous-command")
    /\ IsSome(currentAnalysis)
    /\ Get(currentAnalysis).isDangerous = Some(TRUE)
    /\ execCount = 0

(* C2: in interactive mode the state EXECUTING is entered only from the
   confirmation prompt, by an APPROVE reply given for exactly the current
   command, or from a sudo authentication failure of the same command,
   which had been approved before. *)
C2_InteractiveNeedsApproval ==
    /\ []((~autoApprove /\ state = EXECUTING) =>
            approvedCommand = Get(currentAnalysis).command)
    /\ [][(~autoApprove /\ state # EXECUTING /\ state' = EXECUTING)
          => \/ /\ state = CONFIRMING
                /\ promptCount' = promptCount + 1
                /\ currentAnalysis' = currentAnalysis
                /\ approvedCommand' = Get(currentAnalysis).command
             \/ /\ state = FAILED
                /\ IsSudoAuthFailure(Get(lastError).stderr)
                /\ currentAnalysis' = currentAnalysis
                /\ Get(lastError).command = Get(currentAnalysis).command
                /\ approvedCommand = Get(currentAnalysis).command
                /\ promptCount' = promptCount]_vars

C2_Witness ==
    /\ ~autoApprove
    /\ state = EXECUTING
    /\ isSudoRetry = Some(TRUE)
    /\ attemptCount = 2
    /\ Len(failures) = 2
    /\ approvedCommand = << "sudo", "rm", "-rf", "/" >>

(* C3: a completed failure analysis with attemptCount >= maxTries aborts
   with "max-tries-exceeded" and the alternative is neither stored, confirmed
   nor executed; the same guard aborts a pending sudo retry; with
   maxTries = 1 a failed execution leaves the session aborted with
   attemptCount = 1. *)
C3_LoopGuardAborts ==
    /\ [][(/\ state = FAILED
           /\ failureCalls' = failureCalls + 1
           /\ Len(failures') = Len(failures) + 1
           /\ attemptCount >= maxTries)
          => (/\ state' = ABORTED
              /\ abortedReason' = Some("max-tries-exceeded")
              /\ currentAnalysis' = currentAnalysis
              /\ promptCount' = promptCount
              /\ execCount' = execCount)]_vars
    /\ [][(/\ state = FAILED
           /\ sudoAttempts' # sudoAttempts
           /\ Get(sudoAttempts') < 3
           /\ attemptCount >= maxTries)
          => (/\ state' = ABORTED
              /\ abortedReason' = Some("max-tries-exceeded")
              /\ execCount' = execCount)]_vars
    /\ []((maxTries = 1 /\ attemptCount >= 1 /\ state # FAILED)
            => (state = ABORTED /\ attemptCount = 1 /\ execCount = 1))

C3_Witness ==
    /\ state = ABORTED
    /\ abortedReason = Some("max-tries-exceeded")
    /\ maxTries = 1
    /\ attemptCount = 1
    /\ failures # << >>
    /\ failures[Len(failures)].alternativeCommand # NoCommand
    /\ Get(currentAnalysis).command # failures[Len(failures)].alternativeCommand

(* C4: for maxTries >= 1, attemptCount never exceeds maxTries and a command
   is handed to the executor only while attemptCount < maxTries, in both
   modes and across query modifications. *)
C4_AttemptsBounded ==
    /\ [](maxTries >= 1 =>
            /\ attemptCount <= maxTries
            /\ (state \in {ANALYZING, CONFIRMING, EXECUTING}
                  => attemptCount < maxTries))
    /\ [][(maxTries >= 1 /\ execCount' # execCount)
          => (attemptCount < maxTries /\ attemptCount' <= attemptCount + 1)]_vars

C4_Witness ==
    /\ ~autoApprove
    /\ maxTries = 3
    /\ attemptCount = 3
    /\ modifyCount = 1
    /\ execCount = 3

(* C5: in auto-approve mode with maxTries >= 1 the session reaches SUCCESS
   or ABORTED, after at most maxTries hand-offs to the executor, and never
   returns to ANALYZING or CONFIRMING once a command has been executed. *)
C5_AutoApproveTerminates ==
    /\ []((autoApprove /\ maxTries >= 1) => <>Terminal)
    /\ []((autoApprove /\ maxTries >= 1) =>
            /\ execCount <= maxTries
            /\ (execCount >= 1 => state \notin {ANALYZING, CONFIRMING}))

C5_Witness ==
    /\ autoApprove
    /\ maxTries = 3
    /\ execCount = 3
    /\ state = SUCCESS

(* C6: a session aborted with "dangerous-command" or "user-rejected" has
   attemptCount = 0 and executed no command. *)
C6_NoExecutionBeforeRejection ==
    (/\ state = ABORTED
     /\ abortedReason \in {Some("dangerous-command"), Some("user-rejected")})
    => (attemptCount = 0 /\ execCount = 0)

(* C7: at the terminal state attemptCount equals the number of entries of
   failures (stated for the sessions with maxTries >= 1). *)
C7_AttemptsEqualFailures ==
    (maxTries >= 1 /\ Terminal) => attemptCount = Len(failures)

(* C8 as stated: a sudo authentication failure is either retried or, at the
   third failure, ends the session with "sudo-auth-failed" and
   attemptCount = 3, whatever maxTries >= 1 is; sudoAttempts stays in
   0..3. *)
C8_SudoCeilingIrrespectiveOfMaxTries ==
    /\ [](IsSome(sudoAttempts) => Get(sudoAttempts) \in 0..3)
    /\ [][(maxTries >= 1 /\ state = FAILED /\ sudoAttempts' # sudoAttempts)
          => \/ state' = EXECUTING
             \/ /\ state' = ABORTED
                /\ abortedReason' = Some("sudo-auth-failed")
                /\ attemptCount' = 3]_vars

(* C8 amended: sudoAttempts stays in 0..3; a sudo authentication failure
   below the ceiling is retried only while attemptCount < maxTries and
   otherwise aborts with "max-tries-exceeded"; the third one aborts with
   "sudo-auth-failed", which needs maxTries >= 3, with attemptCount >= 3
   and attemptCount = 3 when the session has no other failure. *)
C8_SudoCeilingUnderLoopGuard ==
    /\ [](IsSome(sudoAttempts) => Get(sudoAttempts) \in 0..3)
    /\ [][(state = FAILED /\ sudoAttempts' # sudoAttempts)
          => \/ /\ Get(sudoAttempts') < 3
                /\ attemptCount < maxTries
                /\ state' = EXECUTING
                /\ isSudoRetry' = Some(TRUE)
             \/ /\ Get(sudoAttempts') < 3
                /\ attemptCount >= maxTries
                /\ state' = ABORTED
                /\ abortedReason' = Some("max-tries-exceeded")
             \/ /\ Get(sudoAttempts') = 3
                /\ maxTries >= 3
                /\ state' = ABORTED
                /\ abortedReason' = Some("sudo-auth-failed")
                /\ attemptCount' >= 3
                /\ (Len(failures') = 3 => attemptCount' = 3)]_vars

C8_Witness ==
    /\ state = ABORTED
    /\ abortedReason = Some("sudo-auth-failed")
    /\ sudoAttempts = Some(3)
    /\ attemptCount = 3
    /\ maxTries = 3

(* C9: an execution that resolves with exit code 124 adds one to
   attemptCount, and handleFailed then records exactly one failures entry
   for it and aborts with "timeout", without failure analysis and without a
   further execution, also when attemptCount has reached maxTries. *)
C9_TimeoutAborts ==
    /\ [][(/\ state = EXECUTING
           /\ state' = FAILED
           /\ Get(lastError').exitCode = 124)
          => (attemptCount' = attemptCount + 1 /\ failures' = failures)]_vars
    /\ [][(state = FAILED /\ IsSome(lastError) /\ Get(lastError).exitCode = 124)
          => (/\ state' = ABORTED
              /\ abortedReason' = Some("timeout")
              /\ Len(failures') = Len(failures) + 1
              /\ SubSeq(failures', 1, Len(failures)) = failures
              /\ IsEntryFor(failures'[Len(failures')], Get(lastError))
              /\ attemptCount' = attemptCount
              /\ failureCalls' = failureCalls
              /\ execCount' = execCount)]_vars

C9_Witness ==
    /\ state = ABORTED
    /\ abortedReason = Some("timeout")
    /\ maxTries = 1
    /\ attemptCount = 1
    /\ Len(failures) = 1
    /\ failures[1].exitCode = 124
    /\ failureCalls = 0

(* C10: once abortedReason holds a value no step changes it. *)
C10_AbortedReasonWrittenOnce ==
    [][IsSome(abortedReason) => abortedReason' = abortedReason]_vars

C10_Witness ==
    /\ IsSome(abortedReason)
    /\ state = ABORTED
    /\ attemptCount >= 1

(* Number of JSON summaries among the lines written so far *)
SummariesWritten ==
    Cardinality({ i \in 1..Len(output) : output[i] = "JSON summary" })

(* Value of the optional counter context.sudoAttempts *)
SudoAttemptsValue(o) == IF IsSome(o) THEN Get(o) ELSE 0

(* C11: abortedReason is set exactly in state ABORTED; the summary of a
   session in SUCCESS has no abortedReason, success = true and status =
   "success"; the summary of an aborted session has a non-empty
   abortedReason and success = false. *)
C11_AbortedReasonIffAborted ==
    /\ IsSome(abortedReason) <=> state = ABORTED
    /\ state = SUCCESS =>
          /\ Summary.abortedReason = None
          /\ Summary.success = TRUE
          /\ Summary.status = "success"
    /\ state = ABORTED =>
          /\ IsSome(Summary.abortedReason)
          /\ Get(Summary.abortedReason) # ""
          /\ Summary.success = FALSE
          /\ Summary.status = "aborted"

C11_Witness ==
    /\ state = ABORTED
    /\ abortedReason = Some("unexpected-error")
    /\ execCount = 2
    /\ Includes(output, "JSON summary")

(* C12: in auto-approve mode a failure analysis that yields no alternative
   command aborts the session with "no-alternative" without a prompt,
   whatever the value of maxTries >= 1. *)
C12_NoAlternativeAborts ==
    [][(/\ autoApprove
        /\ maxTries >= 1
        /\ state = FAILED
        /\ failureCalls' = failureCalls + 1
        /\ Len(failures') = Len(failures) + 1
        /\ failures'[Len(failures')].alternativeCommand = NoCommand)
       => (/\ state' = ABORTED
           /\ abortedReason' = Some("no-alternative")
           /\ promptCount' = promptCount)]_vars

(* C13: attemptCount never decreases; it grows by one exactly in the steps
   where an execution resolves with a non-zero exit code and is unchanged in
   all others, a successful run included; sudoAttempts is the only counter
   that is ever lowered, to 0, by a successful execution. *)
C13_AttemptCountMonotone ==
    [][/\ attemptCount' >= attemptCount
       /\ (state = EXECUTING /\ state' = FAILED)
             => /\ Get(lastError').exitCode # 0
                /\ attemptCount' = attemptCount + 1
       /\ ~(state = EXECUTING /\ state' = FAILED)
             => attemptCount' = attemptCount
       /\ (state = EXECUTING /\ state' = SUCCESS)
             => /\ attemptCount' = attemptCount
                /\ sudoAttempts' = Some(0)
       /\ SudoAttemptsValue(sudoAttempts') < SudoAttemptsValue(sudoAttempts)
             => /\ state = EXECUTING
                /\ state' = SUCCESS
                /\ sudoAttempts' = Some(0)
       /\ execCount' >= execCount
       /\ failureCalls' >= failureCalls
       /\ promptCount' >= promptCount
       /\ Len(failures') >= Len(failures)]_vars

C13_Witness ==
    /\ state = SUCCESS
    /\ attemptCount = 2
    /\ sudoAttempts = Some(0)
    /\ Len(failures) = 2
    /\ IsSudoAuthFailure(failures[1].stderr)
    /\ IsSudoAuthFailure(failures[2].stderr)

(* C14: in jsonMode the only line the engine writes is the JSON summary. *)
C14_JsonModeQuiet ==
    jsonMode => \A i \in 1..Len(output) : output[i] = "JSON summary"

(* C15: in jsonMode exactly one JSON summary is written per session, in a
   terminal state and as the last line; nothing is written after it; a
   session that has finished in jsonMode has written it; without jsonMode
   none is written. *)
C15_OneSummaryAtTheEnd ==
    /\ [](/\ SummariesWritten <= 1
          /\ ~jsonMode => SummariesWritten = 0
          /\ SummariesWritten = 1
                => /\ state \in {SUCCESS, ABORTED}
                   /\ output[Len(output)] = "JSON summary"
          /\ (jsonMode /\ ~ENABLED Next) => SummariesWritten = 1)
    /\ [][SummariesWritten = 1 => output' = output]_vars

C15_Witness ==
    /\ jsonMode
    /\ state = ABORTED
    /\ abortedReason = Some("unexpected-error")
    /\ Len(output) >= 2
    /\ output[Len(output)] = "JSON summary"
    /\ output[Len(output) - 1] = "Error: "

(* C16: alternativesTried of the summary is the number of alternatives
   that were handed to the process executor. *)
C16_AlternativesTriedWereExecuted ==
    state \in {SUCCESS, ABORTED} =>
        Summary.alternativesTried = alternativesExecuted

(* C20: a sudo authentication failure that is the first or second of the
   session, met with attemptCount < maxTries, leads to EXECUTING with the
   same analysis and isSudoRetry = true, without prompt or oracle call;
   EXECUTING is entered with isSudoRetry = true exactly from such a
   failure, and a completed execution clears the flag; one wrong
   password followed by a successful run ends in SUCCESS with one attempt. *)
C20_SudoRetryReexecutes ==
    /\ [][(/\ state = FAILED
           /\ IsSome(lastError)
           /\ IsSome(currentAnalysis)
           /\ Get(lastError).exitCode # 124
           /\ IsSudoAuthFailure(Get(lastError).stderr)
           /\ SudoAttemptsValue(sudoAttempts) + 1 < 3
           /\ attemptCount < maxTries)
          => (/\ state' = EXECUTING
              /\ currentAnalysis' = currentAnalysis
              /\ Get(currentAnalysis').command = Get(lastError).command
              /\ isSudoRetry' = Some(TRUE)
              /\ promptCount' = promptCount
              /\ failureCalls' = failureCalls)]_vars
    /\ [][(state # EXECUTING /\ state' = EXECUTING)
          => (isSudoRetry' = Some(TRUE)
                <=> /\ state = FAILED
                    /\ Get(lastError).exitCode # 124
                    /\ IsSudoAuthFailure(Get(lastError).stderr)
                    /\ SudoAttemptsValue(sudoAttempts) + 1 < 3
                    /\ attemptCount < maxTries)]_vars
    /\ [][(state = EXECUTING /\ state' \in {FAILED, SUCCESS})
          => isSudoRetry' = Some(FALSE)]_vars
    /\ []((/\ state = SUCCESS
           /\ execCount = 2
           /\ Len(failures) = 1
           /\ IsSudoAuthFailure(failures[1].stderr))
          => (attemptCount = 1 /\ Summary.attempts = 1))

C20_Witness ==
    /\ state = SUCCESS
    /\ execCount = 2
    /\ attemptCount = 1
    /\ Len(failures) = 1
    /\ IsSudoAuthFailure(failures[1].stderr)
    /\ isSudoRetry = Some(FALSE)
    /\ promptCount = 1
    /\ failureCalls = 0

(* C17: a run resolves at most once; its result is that of the first event
   of the run (timeout: 124, interrupt: 130, spawn error: 1 with the error
   text, close: the exit code of the process) and is one of the results the
   state machine reckons with; events arriving afterwards change nothing. *)
C17_FirstEventDecides ==
    /\ [](/\ resolveCalls <= 1
          /\ resolved <=> IsSome(settled)
          /\ resolved <=> events # << >>
          /\ IsSome(settled) =>
                LET first == events[1]
                    r == Get(settled)
                IN  /\ r \in SpawnResults(interactive)
                    /\ first.kind = "timeout" => r.exitCode = 124
                    /\ first.kind = "SIGINT" => r.exitCode = 130
                    /\ first.kind = "error" =>
                          r.exitCode = 1 /\ r.stderr = first.text
                    /\ (first.kind = "close" /\ IsSome(first.code)) =>
                          r.exitCode = Get(first.code))
    /\ [][(IsSome(settled) /\ run' = run)
          => (settled' = settled /\ resolved' /\ resolveCalls' = 1)]_vars

C17_Witness ==
    /\ Len(events) = 3
    /\ events[1].kind = "timeout"
    /\ events[2].kind = "SIGINT"
    /\ events[3].kind = "close"
    /\ events[3].code = Some(1)
    /\ IsSome(settled)
    /\ Get(settled).exitCode = 124
    /\ resolveCalls = 1

(* C18: once a run has resolved its timer is not armed and its SIGINT
   listener is detached: no listener is registered while no run is pending
   and never more than one. *)
C18_PendingWorkCancelled ==
    /\ resolved => (timer # "armed" /\ listeners = 0)
    /\ listeners <= 1

(* C19: at most one child spawned by the engine is running. *)
C19_OneSubprocessAtATime ==
    Cardinality({ i \in 1..Len(children) : children[i] = "running" }) <= 1

(* C21: the analysis the state machine holds satisfies
   CommandAnalysisSchema, so isDangerous is a defined boolean when the
   danger check runs. *)
C21_AnalysisValidated ==
    IsSome(currentAnalysis) => CommandAnalysisSchema(Get(currentAnalysis))

(* C22: in auto-approve mode promptUser is never called. *)
C22_AutoApproveNeverPrompts ==
    /\ [](autoApprove => promptCount = 0)
    /\ [][autoApprove => promptCount' = promptCount]_vars

C22_Witness ==
    /\ autoApprove
    /\ state = ABORTED
    /\ abortedReason = Some("no-alternative")
    /\ alternativesExecuted = 1
    /\ attemptCount = 2
    /\ promptCount = 0

(* The recognised tokens of the prompt *)
ApproveTokens == { << "y" >>, << "y", "e", "s" >> }

RejectTokens == { << >>, << "n" >>, << "n", "o" >> }

(* C23 as stated: the reply itself is matched against the tokens, and a
   modification carries the reply as typed. *)
C23_ReplyMappedVerbatim ==
    IsSome(action) =>
        LET a == Get(action)
        IN  /\ reply \in RejectTokens => a.type = REJECT
            /\ reply \in ApproveTokens => a.type = APPROVE
            /\ (reply \notin RejectTokens \cup ApproveTokens /\ Len(reply) > 1)
                  => (a.type = MODIFY /\ a.input = Some(reply))
            /\ (reply \notin RejectTokens \cup ApproveTokens /\ Len(reply) = 1)
                  => a.type = REJECT

(* C23 amended: the reply is matched after trimming and lower-casing, and a
   modification carries the trimmed reply in its original case. *)
C23_ReplyMappedAfterTrim ==
    IsSome(action) =>
        LET a == Get(action)
            t == ToLowerCase(Trim(reply))
        IN  /\ t \in RejectTokens => (a.type = REJECT /\ a.input = None)
            /\ t \in ApproveTokens => (a.type = APPROVE /\ a.input = None)
            /\ (t \notin RejectTokens \cup ApproveTokens /\ Len(t) > 1)
                  => (a.type = MODIFY /\ a.input = Some(Trim(reply)))
            /\ (t \notin RejectTokens \cup ApproveTokens /\ Len(t) = 1)
                  => (a.type = REJECT /\ a.input = None)

C23_Witness ==
    /\ reply = << " ", "Y", "x" >>
    /\ IsSome(action)
    /\ Get(action).type = MODIFY
    /\ Get(action).input = Some(<< "Y", "x" >>)

(* C24: a step in which the catch block of execute ran ends in ABORTED with
   "unexpected-error" unless a reason was set before; this is what a raising
   command analysis leads to; no command is executed in ABORTED. *)
C24_EscapedExceptionAborts ==
    /\ [][(/\ Len(output') = Len(output) + 1
           /\ output'[Len(output')] = "Error: ")
          => (/\ state' = ABORTED
              /\ abortedReason' = IF IsSome(abortedReason)
                                  THEN abortedReason
                                  ELSE Some("unexpected-error"))]_vars
    /\ [][(/\ state = ANALYZING
           /\ state' = ABORTED
           /\ currentAnalysis' = currentAnalysis)
          => (/\ abortedReason' = Some("unexpected-error")
              /\ output'[Len(output')] = "Error: ")]_vars
    /\ [][state = ABORTED => (execCount' = execCount /\ state' = ABORTED)]_vars

C24_Witness ==
    /\ state = ABORTED
    /\ abortedReason = Some("unexpected-error")
    /\ currentAnalysis = None
    /\ execCount = 0
    /\ output # << >>
    /\ output[1] = "Error: "

(* C25: the session takes the reason "failure-analysis-error" exactly in
   the steps where the failure-analysis oracle call raised, that is where
   analyzeFailure was called and returned nothing to record. *)
C25_OnlyOracleFailure ==
    [][(/\ state = FAILED
        /\ maxTries >= 1
        /\ abortedReason' = Some("failure-analysis-error"))
       => (/\ failureCalls' = failureCalls + 1
           /\ failures' = failures
           /\ promptCount' = promptCount)]_vars

(* C26: a failure analysis that needed the plain-text call makes exactly
   one such call and records a failure without alternative; the session
   goes on with the loop guard and the no-alternative handling, the
   analysis it holds unchanged. *)
C26_PlainTextFallback ==
    /\ [][textCalls' \in {textCalls, textCalls + 1}]_vars
    /\ [][(textCalls' = textCalls + 1)
          => (state = FAILED /\ failureCalls' = failureCalls + 1)]_vars
    /\ [][(textCalls' = textCalls + 1 /\ Len(failures') = Len(failures) + 1)
          => LET entry == failures'[Len(failures')]
             IN  /\ entry.alternativeCommand = NoCommand
                 /\ entry.solution = Some("See explanation above")
                 /\ currentAnalysis' = currentAnalysis
                 /\ execCount' = execCount
                 /\ attemptCount >= maxTries =>
                       /\ abortedReason' = Some("max-tries-exceeded")
                       /\ promptCount' = promptCount
                 /\ (attemptCount < maxTries /\ autoApprove) =>
                       abortedReason' = Some("no-alternative")
                 /\ (attemptCount < maxTries /\ ~autoApprove) =>
                       /\ promptCount' = promptCount + 1
                       /\ state' \in {ANALYZING, ABORTED}]_vars

C26_Witness ==
    /\ autoApprove
    /\ state = ABORTED
    /\ abortedReason = Some("no-alternative")
    /\ textCalls = 1
    /\ Len(failures) = 1
    /\ failures[1].solution = Some("See explanation above")
    /\ failures[1].alternativeCommand = NoCommand

(* C27: a session aborted with "timeout" had a timeout configured and its
   last failure is the result the timer callback resolves with. *)
C27_TimeoutOnlyFromTimer ==
    abortedReason = Some("timeout") =>
        /\ timeoutMs # 0
        /\ failures # << >>
        /\ Includes(failures[Len(failures)].stderr, "Command timed out")

(* C28: the command of a state EXECUTING was returned by a command analysis
   of this session with isDangerous = false (stated for the analyses in
   which isDangerous is defined). *)
C28_ExecutedCommandsClassified ==
    (/\ state = EXECUTING
     /\ IsSome(currentAnalysis)
     /\ IsSome(Get(currentAnalysis).isDangerous))
    => Get(currentAnalysis).command \in classifiedSafe

(* C29: in interactive mode EXECUTING is entered from FAILED only for a
   command that invoked sudo and for which a password was collected. *)
C29_RetryOnlyAfterSudoFailure ==
    [][(~autoApprove /\ state = FAILED /\ state' = EXECUTING)
       => (/\ HasSudo(Get(lastError).command)
           /\ ~Get(currentAnalysis).needsInteractiveMode)]_vars

(* C30: a run resolved with exit code 0 only if its child exited with
   status 0. *)
C30_SuccessOnlyOnExitZero ==
    (IsSome(settled) /\ Get(settled).exitCode = 0)
    => (/\ events[1].kind = "close"
        /\ events[1].code = Some(0))

(* C31: when a password was collected for a command without a pipe, the
   child's standard input is a pipe, the password is written to it at most
   once, and only after a sudo prompt was seen on the child's stderr. *)
C31_PasswordDeliveredOverPipe ==
    (/\ IsSome(call.sudoPassword)
     /\ ~HasPipe(call.command)
     /\ call.spawns > 0)
    => (/\ call.stdin = "pipe"
        /\ call.written + (IF call.pendingWrite THEN 1 ELSE 0) <= 1
        /\ (call.written > 0 \/ call.pendingWrite) => call.prompts > 0)

(* C32: the state changes only along the edges of the machine, the handler
   of a state does only that state's work, and a terminal state is final:
   no field of the context changes, no oracle call, prompt or execution
   is made. *)
C32_TransitionsAndTerminal ==
    /\ [][state' # state =>
            \/ state = ANALYZING /\ state' \in {CONFIRMING, ABORTED}
            \/ state = CONFIRMING /\ state' \in {EXECUTING, ANALYZING, ABORTED}
            \/ state = EXECUTING /\ state' \in {SUCCESS, FAILED, ABORTED}
            \/ state = FAILED
               /\ state' \in {EXECUTING, CONFIRMING, ANALYZING, ABORTED}]_vars
    /\ [][state = ANALYZING =>
            /\ execCount' = execCount
            /\ failureCalls' = failureCalls
            /\ promptCount' = promptCount]_vars
    /\ [][state = CONFIRMING =>
            /\ execCount' = execCount
            /\ failureCalls' = failureCalls
            /\ currentAnalysis' = currentAnalysis
            /\ promptCount' \in {promptCount, promptCount + 1}]_vars
    /\ [][state = EXECUTING =>
            /\ execCount' \in {execCount, execCount + 1}
            /\ failureCalls' = failureCalls
            /\ currentAnalysis' = currentAnalysis
            /\ promptCount' = promptCount]_vars
    /\ [][state = FAILED =>
            /\ execCount' = execCount
            /\ failureCalls' \in {failureCalls, failureCalls + 1}
            /\ promptCount' \in {promptCount, promptCount + 1}]_vars
    /\ [][Terminal => UNCHANGED session]_vars

C32_Witness ==
    /\ state = SUCCESS
    /\ Includes(output, "JSON summary")
    /\ modifyCount = 1
    /\ attemptCount = 1
    /\ Len(failures) = 1
    /\ execCount = 2

(* s is a prefix of t *)
IsPrefix(s, t) == Len(s) <= Len(t) /\ SubSeq(t, 1, Len(s)) = s

(* The step records a completed failure analysis *)
AnalysisRecorded ==
    /\ state = FAILED
    /\ failureCalls' = failureCalls + 1
    /\ Len(failures') = Len(failures) + 1

(* C33: the history only grows at its end; a modification at the
   confirmation prompt appends the request, the suggestion and the
   modification and makes the modification the query; a completed failure
   analysis appends a user and an assistant message; nothing else changes
   the history. *)
C33_HistoryAppendOnly ==
    /\ [][IsPrefix(conversationHistory, conversationHistory')]_vars
    /\ [][(state = CONFIRMING /\ state' = ANALYZING) =>
            LET n == Len(conversationHistory)
                h == conversationHistory'
            IN  /\ Len(h) = n + 3
                /\ h[n + 1].role = "user"
                /\ h[n + 1].content
                     = << IF query = originalQuery
                          THEN "I want to: "
                          ELSE "Based on our previous discussion, I want to: " >>
                       \o query
                /\ h[n + 2].role = "assistant"
                /\ h[n + 2].content
                     = << "I suggest this command: " >>
                       \o Get(currentAnalysis).command
                       \o << "Explanation: ", Get(currentAnalysis).explanation >>
                /\ h[n + 3].role = "user"
                /\ h[n + 3].content = query']_vars
    /\ [][AnalysisRecorded =>
            LET n == Len(conversationHistory)
                h == conversationHistory'
            IN  /\ Len(h) = n + 2
                /\ h[n + 1] = [ role |-> "user",
                                content |-> << "Execute the command" >> ]
                /\ h[n + 2].role = "assistant"]_vars
    /\ [][conversationHistory' # conversationHistory =>
            \/ state = CONFIRMING /\ state' = ANALYZING
            \/ AnalysisRecorded]_vars

C33_Witness ==
    /\ Len(conversationHistory) = 5
    /\ conversationHistory[1].role = "user"
    /\ conversationHistory[2].role = "assistant"
    /\ conversationHistory[3].role = "user"
    /\ conversationHistory[3].content = query
    /\ conversationHistory[4].content = << "Execute the command" >>
    /\ conversationHistory[5].role = "assistant"

(* C34: an analysis that replaces the current one after a failure carries
   nothing of the analysis it replaces: the fields a failure analysis does
   not have (isDangerous, requiresExternalPackages, externalPackages) are
   not set in it. *)
C34_AnalysisReplacedWholesale ==
    [][(state = FAILED /\ currentAnalysis' # currentAnalysis) =>
         /\ Get(currentAnalysis').isDangerous = None
         /\ ~Get(currentAnalysis').requiresExternalPackages
         /\ Get(currentAnalysis').externalPackages = {}]_vars

(* The texts a modification reply can carry *)
ModificationTexts ==
    { Get(promptUser(r).input) : r \in { x \in Replies : promptUser(x).type = MODIFY } }

(* C35: in interactive mode a recorded failure analysis without
   alternative, below the loop guard, is followed in the same step by
   exactly one prompt; a modification becomes the query and the session
   returns to ANALYZING with attemptCount and the recorded failures kept;
   any other reply aborts with "user-aborted" (a cancelled prompt is no
   reply and ends with the catch block of handleFailed). *)
C35_NoAlternativeInteractive ==
    [][(/\ ~autoApprove
        /\ AnalysisRecorded
        /\ failures'[Len(failures')].alternativeCommand = NoCommand
        /\ attemptCount < maxTries)
       => /\ promptCount' = promptCount + 1
          /\ attemptCount' = attemptCount
          /\ IsPrefix(failures, failures')
          /\ currentAnalysis' = currentAnalysis
          /\ execCount' = execCount
          /\ \/ /\ state' = ANALYZING
                /\ query' \in ModificationTexts
                /\ abortedReason' = None
             \/ /\ state' = ABORTED
                /\ abortedReason' = Some("user-aborted")
                /\ query' = query
             \/ /\ state' = ABORTED
                /\ abortedReason' = Some("failure-analysis-error")
                /\ query' = query
                /\ output'[Len(output')] = "Analysis error: "]_vars

C35_Witness ==
    /\ ~autoApprove
    /\ state = ANALYZING
    /\ attemptCount = 1
    /\ Len(failures) = 1
    /\ failures[1].alternativeCommand = NoCommand
    /\ Len(conversationHistory) = 2
    /\ query # originalQuery
    /\ query \in ModificationTexts
    /\ promptCount = 2

(* C36: for a non-interactive command with sudo and a pipe the password
   goes to one privilege-refresh call only and never to the command's
   child; the command is spawned, unmodified, only after a refresh that
   returned exit code 0, and a refresh that returned another exit code is
   the result of executeCommand, no child having been spawned. *)
C36_PipedSudoRefreshFirst ==
    (/\ HasSudo(call.command)
     /\ HasPipe(call.command)
     /\ ~call.needsInteractiveMode)
    => /\ call.written = 0
       /\ ~call.pendingWrite
       /\ ~call.passwordSent
       /\ call.stdin # "pipe"
       /\ call.refreshes <= 1
       /\ call.refreshes = 1 => IsSome(call.sudoPassword)
       /\ call.spawns <= 1
       /\ call.spawns = 1 =>
            /\ IsSome(call.authResult)
            /\ Get(call.authResult).exitCode = 0
            /\ call.shell = call.command
       /\ (IsSome(call.authResult) /\ Get(call.authResult).exitCode # 0) =>
            /\ call.spawns = 0
            /\ call.phase = "returned"
            /\ call.result = call.authResult

C36_Witness ==
    /\ HasSudo(call.command)
    /\ HasPipe(call.command)
    /\ call.phase = "returned"
    /\ call.spawns = 0
    /\ IsSome(call.result)
    /\ Get(call.result).exitCode = 1
    /\ Get(call.result).stderr = << "Sorry, try again" >>

(* C37: the finalCommand of the summary of a finished session is the
   command that was run last, or the analysed command if none was run. *)
C37_FinalCommandWasExecuted ==
    Terminal =>
        Summary.finalCommand =
            IF lastRun # NoCommand THEN lastRun
            ELSE IF IsSome(currentAnalysis) THEN Get(currentAnalysis).command
            ELSE NoCommand

(* C38: the context holds what each handler expects: an analysis in
   CONFIRMING and EXECUTING, an analysis and the error of its command in
   FAILED; no session carries the reason "missing-analysis" or
   "missing-error-context". *)
C38_ContextComplete ==
    /\ state \in {CONFIRMING, EXECUTING} => IsSome(currentAnalysis)
    /\ state = FAILED =>
         /\ IsSome(lastError)
         /\ IsSome(currentAnalysis)
         /\ Get(lastError).command = Get(currentAnalysis).command
    /\ abortedReason \notin { Some("missing-analysis"),
                             Some("missing-error-context") }

C38_Witness ==
    /\ state = FAILED
    /\ alternativesExecuted = 1
    /\ attemptCount = 2
    /\ IsSome(lastError)
    /\ Get(lastError).command = << "sudo", "rm", "-rf", "/" >>
    /\ Get(currentAnalysis).command = << "sudo", "rm", "-rf", "/" >>

====
